---- MODULE Spec2Model ----
(***************************************************************************)
(* Model of pytransit/param/parameter.py: the priors, Parameter, the       *)
(* parameter blocks and the ParameterSet life cycle                        *)
(* (add_*_block / append / extend / freeze / thaw / find_pid / lnprior /   *)
(* validate).                                                              *)
(*                                                                         *)
(* Numbers.  Parameter values and bounds are integers.  Log-densities are  *)
(* fixed-point numbers in units of 1/1000 (LnMilli(2) = 693 is ln 2).      *)
(* numpy's inf is the sentinel `inf`, -inf is NegInf; lnadd is float       *)
(* addition on that domain (x + -inf = -inf).                              *)
(*                                                                         *)
(* Names.  A parameter name is the tuple of its parts between the '_'      *)
(* separators, i.e. the value of name.split('_'): "k1_g" is <<"k1","g">>   *)
(* and "rho" is <<"rho">>.                                                 *)
(*                                                                         *)
(* Objects.  Every Parameter handed to the set is a freshly constructed    *)
(* object owned by the set alone (as in lpf/ttvlpf.py:61-69), so a         *)
(* Parameter is modelled by the record of its fields stored in the         *)
(* sequence.                                                               *)
(*                                                                         *)
(* Specifications.                                                         *)
(*   Spec         a set grown by global blocks and bare append / extend,   *)
(*                frozen, thawed and queried with find_pid                 *)
(*   SpecBlocks   a set built from global, passband and light-curve        *)
(*                blocks, frozen and thawed                                *)
(*   SpecPrior    lnprior evaluated on frozen sets                         *)
(*   SpecUniform  UniformPrior constructed and evaluated                   *)
(*   SpecValidate validate called on sets of named parameters              *)
(* `last` is what the caller observes of the most recent call (exception   *)
(* or "ok", value returned); `call` holds the arguments of the most recent *)
(* query (find_pid, lnprior, logpdf) and is empty after a mutator.         *)
(***************************************************************************)
EXTENDS Integers, Sequences, FiniteSets, TLC

VARIABLES pars, blocks, frozen, bounds, call, last

vars == <<pars, blocks, frozen, bounds, call, last>>

\* ------------------------------------------------------------------ bounds
MaxLen    == 2   \* longest parameter sequence explored
MaxBlocks == 2   \* most recorded blocks explored
MaxPars   == 2   \* longest `pars` list handed to one call
MaxCoord  == 3   \* largest coordinate used for prior / bound end points
MaxVLen   == 2   \* longest parameter set in the lnprior specification
MaxNames  == 3   \* longest parameter set in the validate specification

\* --------------------------------------------------------------- numerics
inf == 1000000
NegInf == 0 - inf

\* m.log on the positive integers, in 1/1000 units
LnMilli(n) ==
  CASE n = 1 -> 0
    [] n = 2 -> 693
    [] n = 3 -> 1099
    [] n = 4 -> 1386
    [] n = 5 -> 1609
    [] n = 6 -> 1792
    [] n = 7 -> 1946
    [] n = 8 -> 2079
    [] n = 9 -> 2197
    [] n = 10 -> 2303

\* float addition restricted to finite values and -inf
lnadd(x, y) == IF x = NegInf \/ y = NegInf THEN NegInf ELSE x + y

\* Python's // and % (floor division; the remainder takes the divisor's sign)
FloorDiv(a, b) == IF b > 0 THEN a \div b ELSE (0 - a) \div (0 - b)
PyMod(a, b) == a - b * FloorDiv(a, b)

\* ----------------------------------------------------------------- priors
DefaultPrior == [kind |-> "Default"]

\* UniformPrior.__init__ : m.log raises ValueError on a non-positive argument
UniformPriorInitOk(a, b) == b - a > 0
UniformPrior(a, b) == [kind |-> "Uniform", a |-> a, b |-> b, lnc |-> LnMilli(b - a)]

\* UniformPrior.logpdf
UniformLogpdf(pr, v) == IF pr.a < v /\ v < pr.b THEN pr.lnc ELSE NegInf

\* NormalPrior.__init__ ; 919 is ln(sqrt(2 pi)), std is 1 or 2 so that
\* 1/(2 std^2) is exact in 1/1000 units
LnSqrt2Pi == 919
NormalPrior(mean, std) ==
  [kind |-> "Normal", mean |-> mean, std |-> std,
   lf1 |-> 0 - (LnSqrt2Pi + LnMilli(std)), f2 |-> 1000 \div (2 * std * std)]

\* NormalPrior.logpdf
NormalLogpdf(pr, x) == pr.lf1 - pr.f2 * (x - pr.mean) * (x - pr.mean)

\* prior.logpdf(v), dispatched on the prior's class
logpdf(pr, v) ==
  CASE pr.kind = "Default" -> 0
    [] pr.kind = "Uniform" -> UniformLogpdf(pr, v)
    [] pr.kind = "Normal"  -> NormalLogpdf(pr, v)

\* -------------------------------------------------------------- Parameter
\* Parameter.__init__ : pid starts at -1
Parameter(name, prior, bnds, scope) ==
  [name |-> name, prior |-> prior, bounds |-> bnds, pid |-> 0 - 1, scope |-> scope]

\* Parameter.lnprior
lnprior_p(p, v) == logpdf(p.prior, v)

\* Parameter.truncated_lnprior
truncated_lnprior(p, v) ==
  IF p.bounds[1] < v /\ v < p.bounds[2] THEN logpdf(p.prior, v) ELSE NegInf

\* ----------------------------------------------------------------- blocks
\* GParameterBlock.__init__ (slice is the pair start, stop)
GParameterBlock(name, start, stop) ==
  [kind |-> "G", name |-> name, start |-> start, stop |-> stop]

\* the list comprehension building `slices`; range(nelem) is empty for nelem <= 0
BlockSlices(start, isize, nelem) ==
  [i \in 1..nelem |-> <<start + isize * (i - 1), start + isize * i>>]

\* the two asserts of PParameterBlock / LParameterBlock.__init__, evaluated in
\* order; // by zero raises ZeroDivisionError before the comparison is made
BlockInitError(start, stop, isize, n) ==
  IF isize = 0 THEN "ZeroDivisionError"
  ELSE IF FloorDiv(stop - start, isize) # n THEN "AssertionError"
  ELSE IF PyMod(stop - start, isize) # 0 THEN "AssertionError"
  ELSE "ok"

SubBlock(kind, name, start, stop, isize) ==
  [kind |-> kind, name |-> name, start |-> start, stop |-> stop, isize |-> isize,
   nelem |-> FloorDiv(stop - start, isize),
   slices |-> BlockSlices(start, isize, FloorDiv(stop - start, isize))]

PParameterBlockNoModCheck(name, start, stop, isize, npb) ==
  IF isize = 0 THEN [err |-> "ZeroDivisionError"]
  ELSE IF FloorDiv(stop - start, isize) # npb THEN [err |-> "AssertionError"]
  ELSE [err |-> "ok", blk |-> SubBlock("P", name, start, stop, isize)]
\* PParameterBlock.__init__
PParameterBlock(name, start, stop, isize, npb) ==
  IF BlockInitError(start, stop, isize, npb) # "ok"
  THEN [err |-> BlockInitError(start, stop, isize, npb)]
  ELSE [err |-> "ok", blk |-> SubBlock("P", name, start, stop, isize)]

\* LParameterBlock.__init__
LParameterBlock(name, start, stop, isize, nlc) ==
  IF BlockInitError(start, stop, isize, nlc) # "ok"
  THEN [err |-> BlockInitError(start, stop, isize, nlc)]
  ELSE [err |-> "ok", blk |-> SubBlock("L", name, start, stop, isize)]

\* ----------------------------------------------------------- ParameterSet
\* exceptions raised on a frozen set (all are ValueError in the source)
ErrFrozenAppend == "ValueError: Trying to append to a frozen ParameterSet"
ErrFrozenExtend == "ValueError: Trying to extend a frozen ParameterSet"
ErrFrozenUpdate == "ValueError: Trying to update a frozen ParameterSet"
ErrDuplicate    == "ValueError: Duplicate parameter names are not allowed"
ErrNaming       == "ValueError: Passband-dependent parameters must be named as parameter_passband"
ErrCoverage     == "ValueError: Passband-dependent parameters must exist for all passbands"
ErrNotFound     == "KeyError: Could not find parameter"

NoBounds == [isNone |-> TRUE, rows |-> <<>>]

\* ParameterSet.__init__(*args): the list of parameters, no blocks, no bounds
ParameterSet(ps) ==
  [pars |-> ps, blocks |-> <<>>, bounds |-> NoBounds, frozen |-> FALSE]

\* the object the variables describe
Self == [pars |-> pars, blocks |-> blocks, bounds |-> bounds, frozen |-> frozen]

\* outcome of a call: the object afterwards, the exception (or "ok"), and the
\* value returned (<<>> for None, <<v>> for a value v)
Ok(s, ret)   == [self |-> s, res |-> "ok", ret |-> ret]
Raise(s, e)  == [self |-> s, res |-> e, ret |-> <<>>]

appendUnguarded(s, p) == Ok([s EXCEPT !.pars = Append(@, p)], <<>>)
\* ParameterSet.append
append(s, p) ==
  IF ~s.frozen THEN Ok([s EXCEPT !.pars = Append(@, p)], <<>>)
  ELSE Raise(s, ErrFrozenAppend)

\* ParameterSet.extend
extend(s, ps) ==
  IF ~s.frozen THEN Ok([s EXCEPT !.pars = @ \o ps], <<>>)
  ELSE Raise(s, ErrFrozenExtend)

\* ParameterSet.add_global_block
add_global_block(s, name, ps) ==
  LET start == Len(s.pars)
      stop  == start + Len(ps)
      s1    == [s EXCEPT !.blocks = Append(@, GParameterBlock(name, start, stop))]
  IN extend(s1, ps)

\* ParameterSet.add_passband_block
add_passband_block(s, name, isize, npb, ps) ==
  LET start == Len(s.pars)
      stop  == start + Len(ps)
      b     == PParameterBlock(name, start, stop, isize, npb)
  IN IF b.err # "ok" THEN Raise(s, b.err)
     ELSE extend([s EXCEPT !.blocks = Append(@, b.blk)], ps)

\* ParameterSet.add_lightcurve_block
add_lightcurve_block(s, name, isize, nlc, ps) ==
  LET start == Len(s.pars)
      stop  == start + Len(ps)
      b     == LParameterBlock(name, start, stop, isize, nlc)
  IN IF b.err # "ok" THEN Raise(s, b.err)
     ELSE extend([s EXCEPT !.blocks = Append(@, b.blk)], ps)

update_indices_one_based(s) ==
  IF ~s.frozen
  THEN LET s1 == [s EXCEPT !.bounds = [isNone |-> FALSE,
                                       rows |-> [i \in 1..Len(s.pars) |-> s.pars[i].bounds]]]
       IN IF Len(s.pars) = 0 THEN Raise(s1, "IndexError")
          ELSE Ok([s1 EXCEPT !.pars = [i \in 1..Len(s.pars) |-> [s.pars[i] EXCEPT !.pid = i]]],
                  <<>>)
  ELSE Raise(s, ErrFrozenUpdate)
\* ParameterSet._update_indices.  array([]) of an empty set is one-dimensional,
\* so bounds[:, 0] raises IndexError after self.bounds has been assigned.
\* Sequence position i (1-based here) is Python index i-1.
update_indices(s) ==
  IF ~s.frozen
  THEN LET s1 == [s EXCEPT !.bounds = [isNone |-> FALSE,
                                       rows |-> [i \in 1..Len(s.pars) |-> s.pars[i].bounds]]]
       IN IF Len(s.pars) = 0 THEN Raise(s1, "IndexError")
          ELSE Ok([s1 EXCEPT !.pars = [i \in 1..Len(s.pars) |-> [s.pars[i] EXCEPT !.pid = i - 1]]],
                  <<>>)
  ELSE Raise(s, ErrFrozenUpdate)

freezeSilently(s) ==
  IF s.frozen THEN Ok(s, <<>>)
  ELSE LET u == update_indices(s)
       IN IF u.res # "ok" THEN u ELSE Ok([u.self EXCEPT !.frozen = TRUE], <<>>)
\* ParameterSet.freeze
freeze(s) ==
  LET u == update_indices(s)
  IN IF u.res # "ok" THEN u ELSE Ok([u.self EXCEPT !.frozen = TRUE], <<>>)

\* ParameterSet.thaw
thaw(s) == Ok([s EXCEPT !.frozen = FALSE], <<>>)

RECURSIVE FindFrom(_, _, _)
\* the scan `for p in self: if name == p.name`: the first match, 0 for none
FindFrom(ps, name, i) ==
  IF i > Len(ps) THEN 0
  ELSE IF ps[i].name = name THEN i
  ELSE FindFrom(ps, name, i + 1)

RECURSIVE FindLastFrom(_, _, _)
FindLastFrom(ps, name, i) ==
  IF i < 1 THEN 0
  ELSE IF ps[i].name = name THEN i
  ELSE FindLastFrom(ps, name, i - 1)

find_pid_last(s, name) ==
  IF FindLastFrom(s.pars, name, Len(s.pars)) = 0 THEN Raise(s, ErrNotFound)
  ELSE Ok(s, <<s.pars[FindLastFrom(s.pars, name, Len(s.pars))].pid>>)
\* ParameterSet.find_pid: the pid field of the first parameter with that name
find_pid(s, name) ==
  IF FindFrom(s.pars, name, 1) = 0 THEN Raise(s, ErrNotFound)
  ELSE Ok(s, <<s.pars[FindFrom(s.pars, name, 1)].pid>>)

RECURSIVE SumLnPrior(_, _, _)
\* the accumulation loop of ParameterSet.lnprior: lnp += p.lnprior(pv[:, i])
SumLnPrior(ps, pv, i) ==
  IF i > Len(ps) THEN 0
  ELSE lnadd(lnprior_p(ps[i], pv[i]), SumLnPrior(ps, pv, i + 1))

lnpriorClosedMask(s, pv) ==
  IF s.bounds.isNone THEN Raise(s, "TypeError")
  ELSE IF Len(s.bounds.rows) = 0 THEN Raise(s, "IndexError")
  ELSE LET m == (\A i \in 1..Len(pv) : pv[i] >= s.bounds.rows[i][1]) /\
                (\A i \in 1..Len(pv) : pv[i] <= s.bounds.rows[i][2])
       IN Ok(s, <<IF m THEN SumLnPrior(s.pars, pv, 1) ELSE NegInf>>)
\* ParameterSet.lnprior for one parameter vector pv with len(pv) = len(self)
\* (atleast_2d makes it a one-row batch, squeeze returns the scalar; the rows
\* of a batch are evaluated independently by the axis-1 reductions).
\* self.bounds is subscripted first: None raises TypeError, the
\* one-dimensional array of an empty set raises IndexError.
lnprior(s, pv) ==
  IF s.bounds.isNone THEN Raise(s, "TypeError")
  ELSE IF Len(s.bounds.rows) = 0 THEN Raise(s, "IndexError")
  ELSE LET m == (\A i \in 1..Len(pv) : pv[i] > s.bounds.rows[i][1]) /\
                (\A i \in 1..Len(pv) : pv[i] < s.bounds.rows[i][2])
       IN Ok(s, <<IF m THEN SumLnPrior(s.pars, pv, 1) ELSE NegInf>>)

\* the names bound in the module by its imports: m, product, the numpy names,
\* normal, uniform, gm.  `pd` is not among them.
PdDefined == FALSE

\* ParameterSet.names
names(ps) == [i \in 1..Len(ps) |-> ps[i].name]

\* ParameterSet.passband_parameters
passband_parameters(s) == ParameterSet(SelectSeq(s.pars, LAMBDA p : p.scope = "passband"))

\* ParameterSet.global_parameters
global_parameters(s) == ParameterSet(SelectSeq(s.pars, LAMBDA p : p.scope = "global"))

\* ParameterSet.local_parameters
local_parameters(s) == ParameterSet(SelectSeq(s.pars, LAMBDA p : p.scope = "local"))

Elems(q) == {q[i] : i \in 1..Len(q)}

\* the body of ParameterSet.validate below its first statement
validate_checks(s) ==
  LET pnames == names(passband_parameters(s).pars)
      all_n  == names(s.pars)
  IN IF \E i, j \in 1..Len(all_n) : i # j /\ all_n[i] = all_n[j]
       THEN Raise(s, ErrDuplicate)
     ELSE IF ~(\A i \in 1..Len(pnames) : Len(pnames[i]) >= 2)
       THEN Raise(s, ErrNaming)
     ELSE LET prs == {n[1] : n \in Elems(pnames)}
              pbs == {n[2] : n \in Elems(pnames)}
          IN IF Len(pnames) # Cardinality(prs) * Cardinality(pbs)
               THEN Raise(s, ErrCoverage)
             ELSE IF ~(\A pr \in prs, pb \in pbs : <<pr, pb>> \in Elems(pnames))
               THEN Raise(s, ErrNaming)
             ELSE Ok(s, <<>>)

\* ParameterSet.validate: the first statement evaluates pd.Categorical
validate(s) ==
  IF ~PdDefined THEN Raise(s, "NameError") ELSE validate_checks(s)

\* ------------------------------------------------------------ input sets
MaxISize == 2

ParameterNames == {<<"a">>, <<"b">>}
QueryNames     == ParameterNames \cup {<<"c">>}
BlockNames     == {"orbit"}

\* the Parameter objects a caller constructs for the life-cycle specification
Parameters ==
  { Parameter(<<"a">>, DefaultPrior, <<0, 2>>, "global"),
    Parameter(<<"b">>, UniformPrior(0, 2), <<NegInf, inf>>, "global") }

RECURSIVE SeqsUpTo(_, _)
SeqsUpTo(S, n) ==
  IF n = 0 THEN {<<>>}
  ELSE SeqsUpTo(S, n - 1) \cup
       {Append(q, x) : q \in {t \in SeqsUpTo(S, n - 1) : Len(t) = n - 1}, x \in S}

ParsLists == SeqsUpTo(Parameters, MaxPars)

\* the Parameter objects a caller constructs for the block specification
BlockParameters == { Parameter(<<"k">>, NormalPrior(1, 1), <<0, 2>>, "passband") }

BlockParsLists == SeqsUpTo(BlockParameters, MaxPars)
ISizes    == (0 - 1)..MaxISize
Counts    == (0 - 1)..MaxPars

\* ---------------------------------------------------------------- actions
\* the caller observes the object after the call, the exception and the value
Commit(op, args, r) ==
  /\ pars'   = r.self.pars
  /\ blocks' = r.self.blocks
  /\ bounds' = r.self.bounds
  /\ frozen' = r.self.frozen
  /\ call'   = args
  /\ last'   = [op |-> op, res |-> r.res, ret |-> r.ret]

\* exploration caps: the sequence and the block list stay within the bounds
Room(n) == Len(pars) + n <= MaxLen /\ Len(blocks) < MaxBlocks

AddGlobalStep(name, ps) ==
  Room(Len(ps)) /\ Commit("add_global_block", <<>>, add_global_block(Self, name, ps))

AddPassbandStep(name, isize, npb, ps) ==
  Room(Len(ps)) /\
  Commit("add_passband_block", <<>>, add_passband_block(Self, name, isize, npb, ps))

AddLightcurveStep(name, isize, nlc, ps) ==
  Room(Len(ps)) /\
  Commit("add_lightcurve_block", <<>>, add_lightcurve_block(Self, name, isize, nlc, ps))

AppendStep(p) == Len(pars) < MaxLen /\ Commit("append", <<>>, append(Self, p))

ExtendStep(ps) == Len(pars) + Len(ps) <= MaxLen /\ Commit("extend", <<>>, extend(Self, ps))

FreezeStep == Commit("freeze", <<>>, freeze(Self))

ThawStep == Commit("thaw", <<>>, thaw(Self))

FindPidStep(name) == Commit("find_pid", <<name>>, find_pid(Self, name))

AddGlobal     == \E nm \in BlockNames, ps \in ParsLists : AddGlobalStep(nm, ps)
AddGlobalB    == \E nm \in BlockNames, ps \in BlockParsLists : AddGlobalStep(nm, ps)
AddPassband   == \E nm \in BlockNames, i \in ISizes, n \in Counts, ps \in BlockParsLists :
                    AddPassbandStep(nm, i, n, ps)
AddLightcurve == \E nm \in BlockNames, i \in ISizes, n \in Counts, ps \in BlockParsLists :
                    AddLightcurveStep(nm, i, n, ps)
AppendCall    == \E p \in Parameters : AppendStep(p)
ExtendCall    == \E ps \in ParsLists : ExtendStep(ps)
FindPid       == \E nm \in QueryNames : FindPidStep(nm)

Init ==
  /\ pars   = ParameterSet(<<>>).pars
  /\ blocks = ParameterSet(<<>>).blocks
  /\ bounds = ParameterSet(<<>>).bounds
  /\ frozen = ParameterSet(<<>>).frozen
  /\ call   = <<>>
  /\ last   = [op |-> "__init__", res |-> "ok", ret |-> <<>>]

\* a set grown by global blocks and bare append / extend, frozen, thawed and
\* queried
Next ==
  \/ AddGlobal
  \/ AppendCall
  \/ ExtendCall
  \/ FreezeStep
  \/ ThawStep
  \/ FindPid

Spec == Init /\ [][Next]_vars

\* a set built from the three kinds of block only (no bare append / extend),
\* frozen and thawed
NextBlocks ==
  \/ AddGlobalB
  \/ AddPassband
  \/ AddLightcurve
  \/ FreezeStep
  \/ ThawStep

SpecBlocks == Init /\ [][NextBlocks]_vars

\* ------------------------------------------- evaluation of UniformPrior
Coords == (0 - 1)..MaxCoord
Values == (0 - 2)..(MaxCoord + 1)

\* U(a, b).logpdf(x): construction, then evaluation
UniformCallStep(a, b, x) ==
  /\ UNCHANGED <<pars, blocks, bounds, frozen>>
  /\ call' = <<a, b, x>>
  /\ last' = IF UniformPriorInitOk(a, b)
             THEN [op |-> "UniformPrior.logpdf", res |-> "ok",
                   ret |-> <<UniformLogpdf(UniformPrior(a, b), x)>>]
             ELSE [op |-> "UniformPrior.logpdf", res |-> "ValueError: math domain error",
                   ret |-> <<>>]

UniformCall == \E a \in Coords, b \in Coords, x \in Values : UniformCallStep(a, b, x)

SpecUniform == Init /\ [][UniformCall]_vars

\* --------------------------------------------- evaluation of lnprior
PriorKinds  == {DefaultPrior, UniformPrior(0, 2), NormalPrior(1, 1)}
BoundsKinds == {<<0, 2>>, <<NegInf, inf>>}

PriorParameters ==
  {Parameter(<<"p">>, pr, bd, "global") : pr \in PriorKinds, bd \in BoundsKinds}

\* a set built by one add_global_block and frozen
InitFrozen ==
  \E ps \in SeqsUpTo(PriorParameters, MaxVLen) :
     LET s == freeze(add_global_block(ParameterSet(<<>>), "orbit", ps).self).self
     IN /\ Len(ps) >= 1
        /\ pars = s.pars /\ blocks = s.blocks /\ bounds = s.bounds /\ frozen = s.frozen
        /\ call = <<>>
        /\ last = [op |-> "freeze", res |-> "ok", ret |-> <<>>]

LnPriorStep(pv) == Commit("lnprior", <<pv>>, lnprior(Self, pv))

LnPrior == \E pv \in [1..Len(pars) -> (0 - 1)..MaxCoord] : LnPriorStep(pv)

SpecPrior == InitFrozen /\ [][LnPrior]_vars

\* ------------------------------------------------ evaluation of validate
ValidateParameters ==
  {Parameter(<<b, pb>>, DefaultPrior, <<NegInf, inf>>, "passband") :
       b \in {"k1", "k2"}, pb \in {"g", "r"}}
  \cup {Parameter(<<"k1">>, DefaultPrior, <<NegInf, inf>>, "passband"),
        Parameter(<<"rho">>, DefaultPrior, <<NegInf, inf>>, "global")}

\* a set constructed from a list of parameters
InitValidate ==
  \E ps \in SeqsUpTo(ValidateParameters, MaxNames) :
     /\ pars = ParameterSet(ps).pars /\ blocks = ParameterSet(ps).blocks
     /\ bounds = ParameterSet(ps).bounds /\ frozen = ParameterSet(ps).frozen
     /\ call = <<>>
     /\ last = [op |-> "__init__", res |-> "ok", ret |-> <<>>]

ValidateStep == Commit("validate", <<>>, validate(Self))

SpecValidate == InitValidate /\ [][ValidateStep]_vars

\* ================================================================= claims
AddOps == {"add_global_block", "add_passband_block", "add_lightcurve_block"}

\* C1: while the set is frozen, append and extend raise the frozen-set
\* error and leave the parameter sequence as it was; on a set that is not
\* frozen (in particular after thaw) append(p) succeeds and the sequence is
\* the old one with exactly p added at the end.
C1_FrozenRejectsThawAccepts ==
  [][ /\ (frozen /\ last'.op = "append") => (last'.res = ErrFrozenAppend /\ pars' = pars)
      /\ (frozen /\ last'.op = "extend") => (last'.res = ErrFrozenExtend /\ pars' = pars)
      /\ \A p \in Parameters :
            (~frozen /\ AppendStep(p)) =>
               /\ last'.res = "ok"
               /\ Len(pars') = Len(pars) + 1
               /\ SubSeq(pars', 1, Len(pars)) = pars
               /\ pars'[Len(pars')] = p
    ]_vars

\* an append that succeeded on a set that was frozen and thawed before
C1_Witness ==
  /\ ~frozen /\ last.op = "append" /\ last.res = "ok"
  /\ \E i \in 1..Len(pars) : pars[i].pid >= 0
  /\ pars[Len(pars)].pid = 0 - 1

\* C2: in every frozen state each parameter's pid is its 0-based position.
C2_FrozenPidsArePositions ==
  frozen => \A i \in 1..Len(pars) : pars[i].pid = i - 1

\* a frozen set of two parameters spread over two blocks
C2_Witness ==
  frozen /\ Len(pars) = 2 /\ Len(blocks) = 2 /\ blocks[2].start = 1 /\ blocks[2].stop = 2

\* the recorded ranges tile [0, len(set)) in construction order
BlocksTile ==
  /\ Len(blocks) = 0 => Len(pars) = 0
  /\ Len(blocks) > 0 => (blocks[1].start = 0 /\ blocks[Len(blocks)].stop = Len(pars))
  /\ \A i \in 1..Len(blocks) : blocks[i].start <= blocks[i].stop
  /\ \A i \in 1..(Len(blocks) - 1) : blocks[i + 1].start = blocks[i].stop

\* C3: after any sequence of add_*_block, freeze and thaw calls, failed ones
\* included, the block ranges tile [0, len(set)) without gap or overlap.
C3_BlocksTileAlways == BlocksTile

\* the sub-ranges are n consecutive ranges of size isize partitioning [start, stop)
SlicesPartition(b, isize, n) ==
  /\ Len(b.slices) = n
  /\ \A i \in 1..Len(b.slices) : b.slices[i][2] - b.slices[i][1] = isize
  /\ \A i \in 1..(Len(b.slices) - 1) : b.slices[i + 1][1] = b.slices[i][2]
  /\ IF Len(b.slices) = 0 THEN b.start = b.stop
     ELSE b.slices[1][1] = b.start /\ b.slices[Len(b.slices)][2] = b.stop

\* what C4 says of one call on an unfrozen set
SubBlockContract(kind, isize, n, ps) ==
  IF Len(ps) = isize * n
  THEN /\ last'.res = "ok"
       /\ pars' = pars \o ps
       /\ Len(blocks') = Len(blocks) + 1
       /\ SubSeq(blocks', 1, Len(blocks)) = blocks
       /\ blocks'[Len(blocks')].kind = kind
       /\ blocks'[Len(blocks')].start = Len(pars)
       /\ blocks'[Len(blocks')].stop = Len(pars')
       /\ SlicesPartition(blocks'[Len(blocks')], isize, n)
  ELSE /\ last'.res = "AssertionError"
       /\ pars' = pars
       /\ blocks' = blocks

\* what C4 says of the calls with the sub-range sizes IS: every call that the
\* step from the current state to the next one can be satisfies the contract
SubBlockCallsMeetContract(IS) ==
  (~frozen /\ last'.op \in {"add_passband_block", "add_lightcurve_block"}) =>
     \A nm \in BlockNames, isize \in IS, n \in Counts, ps \in BlockParsLists :
        IF last'.op = "add_passband_block"
        THEN SubBlockContract("P", isize, n, ps) \/ ~AddPassbandStep(nm, isize, n, ps)
        ELSE SubBlockContract("L", isize, n, ps) \/ ~AddLightcurveStep(nm, isize, n, ps)

\* C4 as stated: for every isize and count, add_passband_block /
\* add_lightcurve_block on an unfrozen set succeeds iff len(params) is
\* isize * count, fails with the configuration error leaving sequence and
\* blocks unchanged otherwise, and on success records count sub-ranges of
\* size isize partitioning [start, stop).
C4_Original == [][SubBlockCallsMeetContract(ISizes)]_vars

\* C4 (amended): the same, for isize >= 1.
C4_PositiveISize == [][SubBlockCallsMeetContract({i \in ISizes : i >= 1})]_vars

\* a passband block of two sub-ranges of size one was recorded on an unfrozen set
C4_Witness ==
  /\ last.op = "add_passband_block" /\ last.res = "ok" /\ ~frozen
  /\ Len(pars) = 2
  /\ blocks[Len(blocks)].kind = "P" /\ blocks[Len(blocks)].slices = <<<<0, 1>>, <<1, 2>>>>

RECURSIVE DirectSum(_, _)
\* the direct per-parameter loop: the sum of each parameter's own
\* un-truncated log-density, taken from the last position down
DirectSum(pv, n) ==
  IF n = 0 THEN 0 ELSE lnadd(DirectSum(pv, n - 1), logpdf(pars[n].prior, pv[n]))

InClosedBounds(pv) ==
  \A i \in 1..Len(pars) : pars[i].bounds[1] <= pv[i] /\ pv[i] <= pars[i].bounds[2]
InOpenBounds(pv) ==
  \A i \in 1..Len(pars) : pars[i].bounds[1] < pv[i] /\ pv[i] < pars[i].bounds[2]

\* C5 as stated: on a frozen set log_prior(v) is the sum of the parameters'
\* un-truncated log-densities when lower[i] <= v[i] <= upper[i] for every i,
\* and -infinity otherwise.
C5_Original ==
  (frozen /\ last.op = "lnprior") =>
     /\ last.res = "ok"
     /\ last.ret = <<IF InClosedBounds(call[1]) THEN DirectSum(call[1], Len(pars)) ELSE NegInf>>

\* C5 (amended): the same with the strict comparison lower[i] < v[i] < upper[i];
\* a component equal to a bound is out of bounds.
C5_StrictMask ==
  (frozen /\ last.op = "lnprior") =>
     /\ last.res = "ok"
     /\ last.ret = <<IF InOpenBounds(call[1]) THEN DirectSum(call[1], Len(pars)) ELSE NegInf>>

\* a two-parameter row strictly inside the bounds with a finite, non-zero sum
C5_Witness ==
  /\ frozen /\ last.op = "lnprior" /\ Len(pars) = 2
  /\ InOpenBounds(call[1])
  /\ last.ret[1] # NegInf /\ last.ret[1] # 0
  /\ pars[1].prior.kind = "Uniform" /\ pars[2].prior.kind = "Normal"

\* the positions (0-based) of the parameters named nm
PositionsOf(nm) == {i - 1 : i \in {j \in 1..Len(pars) : pars[j].name = nm}}

\* C6 as stated: in every state find_pid(name) returns the position of the
\* parameter named name when there is one, and fails with the not-found
\* error when there is none.
C6_Original ==
  last.op = "find_pid" =>
     IF PositionsOf(call[1]) = {} THEN last.res = ErrNotFound
     ELSE last.res = "ok" /\ \E i \in PositionsOf(call[1]) : last.ret = <<i>>

\* C6 (amended): while the set is frozen find_pid(name) returns the position
\* of the first parameter named name; in every state it fails with the
\* not-found error when no parameter has that name.
C6_FrozenFindPid ==
  last.op = "find_pid" =>
     IF PositionsOf(call[1]) = {} THEN last.res = ErrNotFound
     ELSE /\ last.res = "ok"
          /\ frozen =>
               /\ \E i \in PositionsOf(call[1]) : last.ret = <<i>>
               /\ \A i \in PositionsOf(call[1]) : last.ret[1] <= i

\* a frozen set with two parameters of one name, the second one looked up by
\* name: the answer is the first one's position
C6_Witness ==
  /\ frozen /\ last.op = "find_pid" /\ last.res = "ok"
  /\ Len(pars) = 2 /\ pars[1].name = call[1] /\ pars[2].name = call[1]
  /\ last.ret = <<0>>

\* C7 as stated: freeze() on a frozen set succeeds and leaves the set frozen
\* with the same pids and the same cached bounds.
C7_Original ==
  [][ (frozen /\ last'.op = "freeze") =>
        (last'.res = "ok" /\ frozen' /\ pars' = pars /\ bounds' = bounds) ]_vars

\* C7 (amended): freeze() on a frozen set raises the frozen-set error and
\* leaves the set frozen with the same pids and the same cached bounds.
C7_RefreezeRaises ==
  [][ (frozen /\ last'.op = "freeze") =>
        (last'.res = ErrFrozenUpdate /\ frozen' /\ pars' = pars /\ bounds' = bounds) ]_vars

\* a second freeze() was called on a frozen two-parameter set
C7_Witness ==
  /\ frozen /\ last.op = "freeze" /\ last.res = ErrFrozenUpdate
  /\ Len(pars) = 2 /\ Len(bounds.rows) = 2

\* the passband-scoped names
PassbandNames == {pars[i].name : i \in {j \in 1..Len(pars) : pars[j].scope = "passband"}}

NamesDistinct == \A i, j \in 1..Len(pars) : pars[i].name = pars[j].name => i = j

CrossProductComplete ==
  \A n1, n2 \in PassbandNames : <<n1[1], n2[2]>> \in PassbandNames

\* C8: for a set whose passband names all have the form base_passband and
\* whose names are distinct, validate() fails with the incomplete-coverage
\* error when the passband names are not the full cross-product of bases and
\* passbands, and does not fail with it when they are.
C8_ValidateCoverage ==
  (last.op = "validate" /\ NamesDistinct /\ \A n \in PassbandNames : Len(n) = 2) =>
     (last.res = ErrCoverage <=> ~CrossProductComplete)

\* C9: for a < b, Uniform(a, b).log_density(x) is -infinity for x <= a or
\* x >= b and log(1/(b-a)) = -log(b-a) for a < x < b.
C9_UniformLogDensity ==
  (last.op = "UniformPrior.logpdf" /\ call[1] < call[2]) =>
     /\ last.res = "ok"
     /\ last.ret = <<IF call[3] <= call[1] \/ call[3] >= call[2] THEN NegInf
                     ELSE 0 - LnMilli(call[2] - call[1])>>

\* C10: an add_*_block call on a frozen set raises the frozen-set error and
\* leaves the parameter sequence and the block list as they were.
C10_FrozenAddAtomic ==
  [][ (frozen /\ last'.op \in AddOps) =>
        (last'.res = ErrFrozenExtend /\ pars' = pars /\ blocks' = blocks) ]_vars

====
